---- MODULE Spec2Model ----
(***************************************************************************)
(* ConvexBackend (packages/convex-vite-plugin, src/unnamed/part_002): one  *)
(* managed local backend instance, the operating system it acts on (child  *)
(* processes, directories), the deploy command and the HTTP control        *)
(* surface.                                                                *)
(*                                                                         *)
(* Strings that the code builds with template literals are sequences of    *)
(* tokens (the literal pieces and the interpolated values, in order); a    *)
(* message "contains" a text when that text is one of its tokens.  Paths   *)
(* are sequences of path components.                                       *)
(***************************************************************************)
EXTENDS Integers, Sequences, FiniteSets, TLC

(***************************************************************************)
(* Bounds of the model.                                                    *)
(***************************************************************************)
\* calls of the public API made on the instance in one behaviour
MaxCalls == 3
\* spawn() calls suspended at `await downloadConvexBinary(...)` at one time
MaxInflight == 2
\* polls of the liveness endpoint that fit into the health-check timeout
MaxPolls == 3
\* downloadConvexBinary calls made in one behaviour
MaxResolves == 3

(***************************************************************************)
(* Values.                                                                 *)
(***************************************************************************)
\* `undefined` for an optional string / for an optional number
Undefined == "undefined"
NoPort == -1
\* `undefined` for an optional credential (a token sequence)
NoKey == <<>>
\* ChildProcess.pid of a child that could not be created
NoPid == 0
\* this.process === undefined
NoProcess == [present |-> FALSE, pid |-> NoPid]

DefaultPort == 3210
DefaultSiteProxyPort == 3211
DefaultInstanceName == "convex-local"
DefaultDeployTimeout == 60000

\* process.cwd(), the default of options.projectDir
ProjectDir == <<"proj">>
\* crypto.randomBytes(16).toString("hex"), drawn once per instance
RandomHex == "0f3a"

\* path.join(a, b...)
PathJoin(p, names) == p \o names
\* the directory and all its ancestors (what mkdir -p creates)
RECURSIVE Ancestors(_)
Ancestors(p) ==
  IF p = <<>> THEN {} ELSE {p} \cup Ancestors(SubSeq(p, 1, Len(p) - 1))
\* q is p or lies below p (what rm -r of p removes)
IsWithin(q, p) == Len(q) >= Len(p) /\ SubSeq(q, 1, Len(p)) = p

\* JavaScript truthiness of an optional string, credential and number
TruthyStr(s) == s # Undefined /\ s # ""
TruthyKey(k) == k # NoKey
TruthyNum(n) == n # NoPort /\ n # 0

(***************************************************************************)
(* keys.ts is not among the sources: generateKeyPair(instanceName) is      *)
(* modelled from the specification (4.1): a fresh secret and an admin key  *)
(* that is a deterministic function of name and secret.                    *)
(***************************************************************************)
GeneratedSecrets == {"gen-secret"}
DeriveAdminKey(name, secret) == <<"adminkey:", name, "|", secret>>
generateKeyPair(name, fresh) ==
  [instanceSecret |-> fresh, adminKey |-> DeriveAdminKey(name, fresh)]

(***************************************************************************)
(* The configurations callers construct instances with.                    *)
(***************************************************************************)
PortOptions ==
  { [port |-> NoPort, siteProxyPort |-> NoPort],
    [port |-> 0, siteProxyPort |-> NoPort],
    [port |-> 4000, siteProxyPort |-> 4001] }
OptionsSet ==
  { [ instanceName |-> n, instanceSecret |-> s, adminKey |-> k,
      port |-> p.port, siteProxyPort |-> p.siteProxyPort ] :
      n \in {Undefined, "n1"}, s \in {Undefined, "s1"},
      k \in {NoKey, <<"k1">>}, p \in PortOptions }

VARIABLES
  options,         \* the ConvexBackendOptions the instance was constructed with
  port,            \* this.port
  siteProxyPort,   \* this.siteProxyPort
  backendUrl,      \* this.backendUrl
  backendDir,      \* this.backendDir
  instanceName,    \* this.instanceName
  instanceSecret,  \* this.instanceSecret
  adminKey,        \* this.adminKey
  process,         \* this.process (the ChildProcess handle)
  pending,         \* spawn() calls suspended at the await, oldest first
  osProcs,         \* the child processes created so far; the pid is the index
  dirs,            \* the directories that exist
  calls,           \* API calls made so far
  spawnCalls,      \* spawn() calls made so far
  last,            \* the latest call and how it ended
  lastCommand,     \* the deploy command the latest call ran, if any
  lastRequest,     \* the HTTP request the latest call issued, if any
  second,          \* another ConvexBackend constructed in the same process
  probe,           \* the poll loop of waitForReady(), while and after it runs
  provisioner,     \* the binary cache and the downloadConvexBinary calls in flight
  lint,            \* the latest call of a function of the lint plugin's utils.ts
  project,         \* the project the lint rule runs on: files, options, linted file
  rule             \* the closure of the rule (createOnce) and what it reported

instanceVars ==
  <<options, port, siteProxyPort, backendUrl, backendDir, instanceName,
    instanceSecret, adminKey>>
\* the instance, the operating system and the record of its latest call
coreVars ==
  <<options, port, siteProxyPort, backendUrl, backendDir, instanceName,
    instanceSecret, adminKey, process, pending, osProcs, dirs, calls,
    spawnCalls, last, lastCommand, lastRequest>>
\* what the calls modelled under Spec leave alone
outsideVars == <<second, probe, provisioner, lint, project, rule>>
vars == <<coreVars, outsideVars>>

\* count: how many times the latest call ran the command / issued the request
NoCommand ==
  [ran |-> FALSE, count |-> 0, argv |-> <<>>, cwd |-> <<>>, timeout |-> 0,
   error |-> Undefined, status |-> "null", stdout |-> "null", stderr |-> "null"]
NoRequest ==
  [sent |-> FALSE, count |-> 0, url |-> <<>>, authorization |-> <<>>,
   answered |-> FALSE, status |-> 0, text |-> "", json |-> "none", value |-> "undefined"]
\* the latest call: its name and argument, the handle it found in
\* this.process, how it ended (pending, ok, raised), the message of the error
\* it raised, and the value it returned
Result(op, arg, outcome, msg, value) ==
  [op |-> op, arg |-> arg, found |-> process, outcome |-> outcome, msg |-> msg,
   value |-> value]


(***************************************************************************)
(* constructor(options, logger)                                            *)
(***************************************************************************)
\* options.instanceName ?? "convex-local"
ConstructorName(o) ==
  IF o.instanceName # Undefined THEN o.instanceName ELSE DefaultInstanceName

\* the credentials branch: both supplied and truthy, or else generated
ConstructorKeys(o, fresh) ==
  IF TruthyStr(o.instanceSecret) /\ TruthyKey(o.adminKey)
    THEN [instanceSecret |-> o.instanceSecret, adminKey |-> o.adminKey]
    ELSE generateKeyPair(ConstructorName(o), fresh)

\* options.port ?? 3210 and options.siteProxyPort ?? 3211
ConstructorPort(o) == IF o.port # NoPort THEN o.port ELSE DefaultPort
ConstructorSiteProxyPort(o) ==
  IF o.siteProxyPort # NoPort THEN o.siteProxyPort ELSE DefaultSiteProxyPort

\* path.join(this.projectDir, ".convex", <random hex>)
ConstructorBackendDir == PathJoin(ProjectDir, <<".convex", RandomHex>>)

\* no second instance constructed (yet)
NoInstance ==
  [constructed |-> FALSE, options |-> <<>>, port |-> NoPort,
   siteProxyPort |-> NoPort, backendDir |-> <<>>]

\* no poll loop has run
NoProbe == [state |-> "idle", url |-> <<>>, polls |-> 0, refused |-> FALSE]

\* the callers of downloadConvexBinary that can be suspended in it at once
\* (spawn() calls of one or several instances)
Resolvers == {1, 2}
\* nothing cached, nobody resolving.  entry: the cache entry of the version
\* (absent, fresh, stale); final: what lies at the cached path (none,
\* partial, complete); per caller: where it is, what lies at its temporary
\* path, what it was handed
EmptyCache ==
  [ entry |-> "absent", final |-> "none", resolves |-> 0,
    pc |-> [c \in Resolvers |-> "idle"],
    tmp |-> [c \in Resolvers |-> "none"],
    got |-> [c \in Resolvers |-> "none"] ]

\* no function of the lint plugin has been called
NoLint ==
  [op |-> "none", subject |-> <<>>, patterns |-> <<>>, called |-> FALSE,
   result |-> FALSE]

\* no project is being linted
NoProject ==
  [ content |-> <<>>, filename |-> <<>>, exports |-> <<>>,
    ignorePatterns |-> <<>>, ignoreUsageFiles |-> <<>>, skipDirs |-> <<>> ]
\* the closure createOnce() sets up: usages = null, ignoreUsageKey = null,
\* modulePath = null, ignorePatterns = []; and the rule's run on the file:
\* what before() returned, the export nodes visited, the names reported;
\* scans = how many times the project was scanned for usages, linted = how
\* many files the rule was run on, the current one included
NewRule ==
  [ usages |-> {}, scanned |-> FALSE, ignoreUsageKey |-> <<>>,
    modulePath |-> <<>>, ignorePatterns |-> <<>>,
    phase |-> "new", visited |-> 0, reports |-> {},
    scans |-> 0, linted |-> 1 ]

\* (variant: a constructor that starts the backend right away)
ConstructorProcessEager == [present |-> TRUE, pid |-> 1]

\* the constructor assigns no process: the field stays undefined
ConstructorProcess == NoProcess

\* new ConvexBackend(o, logger), in a process that has done nothing else
New(o, fresh) ==
  /\ options = o
  /\ port = ConstructorPort(o)
  /\ siteProxyPort = ConstructorSiteProxyPort(o)
  /\ backendUrl = <<"http://127.0.0.1:", ToString(ConstructorPort(o))>>
  /\ backendDir = ConstructorBackendDir
  /\ instanceName = ConstructorName(o)
  /\ instanceSecret = ConstructorKeys(o, fresh).instanceSecret
  /\ adminKey = ConstructorKeys(o, fresh).adminKey
  /\ process = ConstructorProcess
  /\ pending = <<>>
  /\ osProcs = <<>>
  /\ dirs = Ancestors(ProjectDir)
  /\ calls = 0
  /\ spawnCalls = 0
  /\ last = Result("new", <<>>, "ok", <<>>, <<>>)
  /\ lastCommand = NoCommand
  /\ lastRequest = NoRequest
  /\ second = NoInstance
  /\ probe = NoProbe
  /\ provisioner = EmptyCache

Init ==
  /\ \E o \in OptionsSet, fresh \in GeneratedSecrets : New(o, fresh)
  /\ lint = NoLint
  /\ project = NoProject
  /\ rule = NewRule

\* crypto.randomBytes(16).toString("hex") of a later constructor call: 128
\* random bits, taken to differ from those drawn before
LaterRandomHex == {"9c1e", "77b0"}

\* new ConvexBackend(o, logger), a second time in the same process: the
\* fields C13 is about
Construct(o, hex) ==
  /\ ~second.constructed
  /\ hex # RandomHex
  /\ second' =
       [ constructed   |-> TRUE,
         options       |-> o,
         port          |-> ConstructorPort(o),
         siteProxyPort |-> ConstructorSiteProxyPort(o),
         backendDir    |-> PathJoin(ProjectDir, <<".convex", hex>>) ]
  /\ UNCHANGED <<coreVars, probe, provisioner, lint, project, rule>>

NextInstances == \E o \in OptionsSet, hex \in LaterRandomHex : Construct(o, hex)

\* a process that constructs two instances
SpecInstances == Init /\ [][NextInstances]_vars

(***************************************************************************)
(* getAdminKey()                                                           *)
(***************************************************************************)
GetAdminKey ==
  /\ calls < MaxCalls
  /\ calls' = calls + 1
  /\ last' = Result("getAdminKey", <<>>, "ok", <<>>, adminKey)
  /\ lastCommand' = NoCommand
  /\ lastRequest' = NoRequest
  /\ UNCHANGED <<outsideVars, instanceVars, process, pending, osProcs, dirs, spawnCalls>>

(***************************************************************************)
(* spawn(backendDir): the part before `await downloadConvexBinary(...)`,   *)
(* and the part after it.  downloadConvexBinary (utils.ts) is not among    *)
(* the sources; it is modelled from the specification (4.2) as a call that *)
(* later resolves with a path or rejects, touching no instance state.      *)
(***************************************************************************)
SpawnDirs == {ConstructorBackendDir, <<"tmp", "other">>}

StorageDir(dir) == PathJoin(dir, <<"convex_local_storage">>)
SqlitePath(dir) == PathJoin(dir, <<"convex_local_backend.sqlite3">>)

\* the argument vector childProcess.spawn is given
SpawnArgv(dir) ==
  [ port           |-> ToString(port),
    siteProxyPort  |-> ToString(siteProxyPort),
    instanceName   |-> instanceName,
    instanceSecret |-> instanceSecret,
    localStorage   |-> StorageDir(dir),
    sqlitePath     |-> SqlitePath(dir) ]

RemoveAt(s, i) == SubSeq(s, 1, i - 1) \o SubSeq(s, i + 1, Len(s))

SpawnCall(dir) ==
  /\ calls < MaxCalls
  /\ Len(pending) < MaxInflight
  /\ calls' = calls + 1
  /\ spawnCalls' = spawnCalls + 1
  /\ dirs' = dirs \cup Ancestors(StorageDir(dir))
  /\ pending' = Append(pending, [backendDir |-> dir])
  /\ last' = Result("spawn", dir, "pending", <<>>, <<>>)
  /\ lastCommand' = NoCommand
  /\ lastRequest' = NoRequest
  /\ UNCHANGED <<outsideVars, instanceVars, process, osProcs>>

\* fs.mkdirSync throws (the directory cannot be created): spawn() rejects
\* before it asks for the binary
SpawnMkdirFails(dir) ==
  /\ calls < MaxCalls
  /\ StorageDir(dir) \notin dirs
  /\ calls' = calls + 1
  /\ spawnCalls' = spawnCalls + 1
  /\ last' = Result("spawn", dir, "raised", <<"EACCES: mkdir">>, <<>>)
  /\ lastCommand' = NoCommand
  /\ lastRequest' = NoRequest
  /\ UNCHANGED <<outsideVars, instanceVars, process, pending, osProcs, dirs>>

\* downloadConvexBinary rejects: spawn() rejects with it, nothing is created
SpawnDownloadFails(i) ==
  /\ i \in 1..Len(pending)
  /\ pending' = RemoveAt(pending, i)
  /\ last' = Result("spawn", pending[i].backendDir, "raised",
                   <<"could not obtain executable">>, <<>>)
  /\ lastCommand' = NoCommand
  /\ lastRequest' = NoRequest
  /\ UNCHANGED <<outsideVars, instanceVars, process, osProcs, dirs, calls, spawnCalls>>

\* downloadConvexBinary resolves: childProcess.spawn, then the pid check.
\* created = the operating system created the child and gave it a pid; that
\* needs the working directory (cwd) to exist.
SpawnProcess(i, created) ==
  /\ i \in 1..Len(pending)
  /\ created => pending[i].backendDir \in dirs
  /\ LET dir == pending[i].backendDir
         pid == IF created THEN Len(osProcs) + 1 ELSE NoPid
     IN /\ process' = [present |-> TRUE, pid |-> pid]
        /\ osProcs' =
             IF created
               THEN Append(osProcs, [argv |-> SpawnArgv(dir), cwd |-> dir,
                                     alive |-> TRUE, signalled |-> FALSE])
               ELSE osProcs
        /\ last' =
             IF pid = NoPid
               THEN Result("spawn", dir, "raised",
                           <<"Convex process failed to start - no PID assigned">>, <<>>)
               ELSE Result("spawn", dir, "ok", <<>>, <<>>)
  /\ pending' = RemoveAt(pending, i)
  /\ lastCommand' = NoCommand
  /\ lastRequest' = NoRequest
  /\ UNCHANGED <<outsideVars, instanceVars, dirs, calls, spawnCalls>>

\* a child process ends on its own
ProcessExits(pid) ==
  /\ pid \in 1..Len(osProcs)
  /\ osProcs[pid].alive
  /\ osProcs' = [osProcs EXCEPT ![pid].alive = FALSE]
  /\ UNCHANGED <<outsideVars, instanceVars, process, pending, dirs, calls, spawnCalls, last,
                 lastCommand, lastRequest>>


(***************************************************************************)
(* stop(cleanup = true)                                                    *)
(***************************************************************************)
\* process.kill(pid, "SIGKILL") inside try/catch: the signal ends a live
\* process; for one that has exited the call throws and the catch drops it
Kill(procs, pid) ==
  [procs EXCEPT ![pid].alive = FALSE, ![pid].signalled = TRUE]

\* fsp.rm(dir, { recursive: true }) when it succeeds
RmRecursive(ds, dir) == {d \in ds : ~IsWithin(d, dir)}

StopArg(cleanup) == IF cleanup THEN <<"cleanup">> ELSE <<"keep">>

\* the part of stop() after the handle is cleared: `if (cleanup) await
\* fsp.rm(this.backendDir, { recursive: true })`.  rmFails = the removal
\* fails for a reason of the file system (EACCES, EBUSY); a directory that
\* does not exist always fails (ENOENT: the call passes no `force`)
StopCleanup(cleanup, rmFails) ==
  IF ~cleanup
    THEN /\ last' = Result("stop", StopArg(cleanup), "ok", <<>>, <<>>)
         /\ UNCHANGED dirs
    ELSE IF backendDir \notin dirs
      THEN /\ last' = Result("stop", StopArg(cleanup), "raised", <<"ENOENT: rm">>, <<>>)
           /\ UNCHANGED dirs
      ELSE IF rmFails
        THEN /\ last' = Result("stop", StopArg(cleanup), "raised", <<"EACCES: rm">>, <<>>)
             /\ UNCHANGED dirs
        ELSE /\ last' = Result("stop", StopArg(cleanup), "ok", <<>>, <<>>)
             /\ dirs' = RmRecursive(dirs, backendDir)

\* (variant: the early return guards only the kill, the cleanup always runs)
StopAlwaysCleans(cleanup, rmFails) ==
  /\ calls < MaxCalls
  /\ calls' = calls + 1
  /\ lastCommand' = NoCommand
  /\ lastRequest' = NoRequest
  /\ IF ~process.present \/ process.pid = NoPid
       THEN UNCHANGED <<process, osProcs>>
       ELSE /\ osProcs' = Kill(osProcs, process.pid)
            /\ process' = NoProcess
  /\ StopCleanup(cleanup, rmFails)
  /\ UNCHANGED <<outsideVars, instanceVars, pending, spawnCalls>>

\* (variant: the handle is cleared only after the removal has succeeded)
StopClearsAfterRm(cleanup, rmFails) ==
  /\ calls < MaxCalls
  /\ calls' = calls + 1
  /\ lastCommand' = NoCommand
  /\ lastRequest' = NoRequest
  /\ IF ~process.present \/ process.pid = NoPid
       THEN /\ last' = Result("stop", StopArg(cleanup), "ok", <<>>, <<>>)
            /\ UNCHANGED <<process, osProcs, dirs>>
       ELSE /\ osProcs' = Kill(osProcs, process.pid)
            /\ StopCleanup(cleanup, rmFails)
            /\ process' = IF last'.outcome = "raised" THEN process ELSE NoProcess
  /\ UNCHANGED <<outsideVars, instanceVars, pending, spawnCalls>>

\* (variant: stop() returns at once on an instance whose readiness wait
\* has timed out)
StopUnlessTimedOut(cleanup, rmFails) ==
  /\ calls < MaxCalls
  /\ calls' = calls + 1
  /\ lastCommand' = NoCommand
  /\ lastRequest' = NoRequest
  /\ IF ~process.present \/ process.pid = NoPid \/ probe.state = "timeout"
       THEN /\ last' = Result("stop", StopArg(cleanup), "ok", <<>>, <<>>)
            /\ UNCHANGED <<process, osProcs, dirs>>
       ELSE /\ osProcs' = Kill(osProcs, process.pid)
            /\ process' = NoProcess
            /\ StopCleanup(cleanup, rmFails)
  /\ UNCHANGED <<outsideVars, instanceVars, pending, spawnCalls>>

Stop(cleanup, rmFails) ==
  /\ calls < MaxCalls
  /\ calls' = calls + 1
  /\ lastCommand' = NoCommand
  /\ lastRequest' = NoRequest
  /\ IF ~process.present \/ process.pid = NoPid
       THEN /\ last' = Result("stop", StopArg(cleanup), "ok", <<>>, <<>>)
            /\ UNCHANGED <<process, osProcs, dirs>>
       ELSE /\ osProcs' = Kill(osProcs, process.pid)
            /\ process' = NoProcess
            /\ StopCleanup(cleanup, rmFails)
  /\ UNCHANGED <<outsideVars, instanceVars, pending, spawnCalls>>

(***************************************************************************)
(* deploy()                                                                *)
(***************************************************************************)
\* spawnSync's status when the command did not exit by itself
NullStatus == -1
StatusText(st) == IF st = NullStatus THEN "null" ELSE ToString(st)

\* what spawnSync("bun", ...) can return: exit 0, exit 1, the command cannot
\* be started (nothing captured), the timeout kills it (what it wrote so far
\* is captured), a signal from elsewhere kills it
CommandResults ==
  { [error |-> Undefined, status |-> 0, stdout |-> "deployed", stderr |-> ""],
    [error |-> Undefined, status |-> 1, stdout |-> "out", stderr |-> "err"],
    [error |-> "spawnSync bun ENOENT", status |-> NullStatus,
     stdout |-> "null", stderr |-> "null"],
    [error |-> "spawnSync bun ETIMEDOUT", status |-> NullStatus,
     stdout |-> "out so far", stderr |-> "err so far"],
    [error |-> Undefined, status |-> NullStatus, stdout |-> "out", stderr |-> "err"] }

LocalUrl == <<"http://localhost:", ToString(port)>>

\* the guard all of deploy(), setEnv() and runFunction() start with
NotStarted == ~TruthyNum(port)

DeployCommand(r) ==
  [ ran |-> TRUE, count |-> 1,
    argv |-> <<"bun", "convex", "deploy", "--admin-key">> \o adminKey
               \o <<"--url">> \o LocalUrl,
    cwd |-> ProjectDir, timeout |-> DefaultDeployTimeout,
    error |-> r.error, status |-> StatusText(r.status),
    stdout |-> r.stdout, stderr |-> r.stderr ]

\* how deploy() ends on the result r of the command
DeployOutcome(r) ==
  IF r.error # Undefined
    THEN Result("deploy", <<>>, "raised", <<"Failed to spawn convex deploy: ", r.error>>, <<>>)
    ELSE IF r.status # 0
      THEN Result("deploy", <<>>, "raised",
                  <<"Failed to deploy (exit code ", StatusText(r.status), "):\n",
                    r.stdout, r.stderr>>, <<>>)
      ELSE Result("deploy", <<>>, "ok", <<>>, <<>>)

\* (variant: a failed deploy gives the process handle up)
DeployDropsHandle(r) ==
  /\ calls < MaxCalls
  /\ calls' = calls + 1
  /\ lastRequest' = NoRequest
  /\ IF NotStarted
       THEN /\ last' = Result("deploy", <<>>, "raised", <<"Backend not started">>, <<>>)
            /\ lastCommand' = NoCommand
       ELSE /\ lastCommand' = DeployCommand(r)
            /\ last' = DeployOutcome(r)
  /\ process' = IF last'.outcome = "raised" THEN NoProcess ELSE process
  /\ UNCHANGED <<outsideVars, instanceVars, pending, osProcs, dirs, spawnCalls>>

Deploy(r) ==
  /\ calls < MaxCalls
  /\ calls' = calls + 1
  /\ lastRequest' = NoRequest
  /\ IF NotStarted
       THEN /\ last' = Result("deploy", <<>>, "raised", <<"Backend not started">>, <<>>)
            /\ lastCommand' = NoCommand
       ELSE /\ lastCommand' = DeployCommand(r)
            /\ last' = DeployOutcome(r)
  /\ UNCHANGED <<outsideVars, instanceVars, process, pending, osProcs, dirs, spawnCalls>>


(***************************************************************************)
(* setEnv(name, value) and runFunction(functionName, args)                 *)
(***************************************************************************)
\* response bodies: the text, and what JSON.parse makes of it
Bodies ==
  { [text |-> "{\"value\":7}", json |-> "object", value |-> "7"],
    [text |-> "null", json |-> "null", value |-> "undefined"],
    [text |-> "upstream error", json |-> "invalid", value |-> "undefined"] }
Statuses == {200, 204, 404, 500}

\* what fetch() can end with: a response, or a rejection (no connection)
FetchResults ==
  { [answered |-> TRUE, status |-> st, text |-> b.text, json |-> b.json,
     value |-> b.value] : st \in Statuses, b \in Bodies }
  \cup { [answered |-> FALSE, status |-> 0, text |-> "", json |-> "none",
          value |-> "undefined"] }

\* Response.ok
ResponseOk(r) == 200 <= r.status /\ r.status <= 299

\* (variant: a fetch() that got no answer is issued a second time)
RequestRetried(path, r) ==
  [ sent |-> TRUE, count |-> IF r.answered THEN 1 ELSE 2,
    url |-> LocalUrl \o <<path>>,
    authorization |-> <<"Convex ">> \o adminKey,
    answered |-> r.answered, status |-> r.status, text |-> r.text,
    json |-> r.json, value |-> r.value ]

\* the one `await fetch(...)` of setEnv() and of runFunction()
Request(path, r) ==
  [ sent |-> TRUE, count |-> 1, url |-> LocalUrl \o <<path>>,
    authorization |-> <<"Convex ">> \o adminKey,
    answered |-> r.answered, status |-> r.status, text |-> r.text,
    json |-> r.json, value |-> r.value ]

EnvNames == {"SITE_URL"}
FunctionNames == {"messages:list"}

\* (variant: the error message leaves the response body out)
SetEnvOutcomeNoBody(name, r) ==
  IF ~r.answered
    THEN Result("setEnv", <<name>>, "raised", <<"fetch failed">>, <<>>)
    ELSE IF ~ResponseOk(r)
      THEN Result("setEnv", <<name>>, "raised",
                  <<"Failed to set ", name, " env via API (", ToString(r.status),
                    ")">>, <<>>)
      ELSE Result("setEnv", <<name>>, "ok", <<>>, <<>>)

\* how setEnv() ends on what fetch() gave
SetEnvOutcome(name, r) ==
  IF ~r.answered
    THEN Result("setEnv", <<name>>, "raised", <<"fetch failed">>, <<>>)
    ELSE IF ~ResponseOk(r)
      THEN Result("setEnv", <<name>>, "raised",
                  <<"Failed to set ", name, " env via API (", ToString(r.status),
                    "): ", r.text>>, <<>>)
      ELSE Result("setEnv", <<name>>, "ok", <<>>, <<>>)

SetEnv(name, r) ==
  /\ calls < MaxCalls
  /\ calls' = calls + 1
  /\ lastCommand' = NoCommand
  /\ IF NotStarted
       THEN /\ last' = Result("setEnv", <<name>>, "raised", <<"Backend not started">>, <<>>)
            /\ lastRequest' = NoRequest
       ELSE /\ lastRequest' = Request("/api/v1/update_environment_variables", r)
            /\ last' = SetEnvOutcome(name, r)
  /\ UNCHANGED <<outsideVars, instanceVars, process, pending, osProcs, dirs, spawnCalls>>

\* how runFunction() ends on what fetch() gave: `await response.json()`
\* rejects on a body that is not JSON, and `result.value` throws on null
RunFunctionOutcome(fn, r) ==
  IF ~r.answered
    THEN Result("runFunction", <<fn>>, "raised", <<"fetch failed">>, <<>>)
    ELSE IF ~ResponseOk(r)
      THEN Result("runFunction", <<fn>>, "raised",
                  <<"Failed to run ", fn, " (", ToString(r.status), "): ", r.text>>,
                  <<>>)
      ELSE IF r.json = "invalid"
        THEN Result("runFunction", <<fn>>, "raised", <<"SyntaxError: JSON">>, <<>>)
        ELSE IF r.json = "null"
          THEN Result("runFunction", <<fn>>, "raised", <<"TypeError: null.value">>, <<>>)
          ELSE Result("runFunction", <<fn>>, "ok", <<>>, <<r.value>>)

RunFunction(fn, r) ==
  /\ calls < MaxCalls
  /\ calls' = calls + 1
  /\ lastCommand' = NoCommand
  /\ IF NotStarted
       THEN /\ last' = Result("runFunction", <<fn>>, "raised", <<"Backend not started">>, <<>>)
            /\ lastRequest' = NoRequest
       ELSE /\ lastRequest' = Request("/api/function", r)
            /\ last' = RunFunctionOutcome(fn, r)
  /\ UNCHANGED <<outsideVars, instanceVars, process, pending, osProcs, dirs, spawnCalls>>

(***************************************************************************)
(* waitForReady(): `await this.healthCheck()`, which guards on the port    *)
(* and awaits waitForHttpOk(url, this.healthCheckTimeout).  waitForHttpOk  *)
(* (utils.ts) is not among the sources; it is modelled from the            *)
(* specification (4.3, 5): it polls the URL at a fixed interval, resolves  *)
(* on the first 2xx answer, swallows a refused connection (and any other   *)
(* answer) and polls again, and rejects with a timeout error once the      *)
(* timeout has elapsed, also when a request never gets an answer.          *)
(***************************************************************************)
\* what one poll can meet: an answer with a status, a refused connection,
\* no answer at all
PollResults ==
  { [kind |-> "status", status |-> st] : st \in Statuses }
  \cup { [kind |-> "refused", status |-> 0], [kind |-> "hang", status |-> 0] }

ProbeUrl == LocalUrl \o <<"/version">>
PortNotSetMsg == <<"Port not set for health check">>
TimeoutMsg(url) == <<"Timed out waiting for ">> \o url

\* (variant: waitForReady() catches what healthCheck() raises and goes on)
WaitForReadySwallows(ended) ==
  Result("waitForReady", <<>>, "ok", <<>>, <<>>)

\* how waitForReady() ends on how the poll loop ended: nothing between the
\* loop and the caller catches its error
WaitForReadyOutcome(ended) ==
  IF ended = "ok"
    THEN Result("waitForReady", <<>>, "ok", <<>>, <<>>)
    ELSE Result("waitForReady", <<>>, "raised", TimeoutMsg(probe.url), <<>>)

\* the call, up to the first poll
WaitForReadyCall ==
  /\ calls < MaxCalls
  /\ probe.state # "polling"
  /\ calls' = calls + 1
  /\ IF NotStarted
       THEN /\ last' = Result("waitForReady", <<>>, "raised", PortNotSetMsg, <<>>)
            /\ probe' = NoProbe
       ELSE /\ last' = Result("waitForReady", <<>>, "pending", <<>>, <<>>)
            /\ probe' = [state |-> "polling", url |-> ProbeUrl, polls |-> 0,
                         refused |-> FALSE]
  /\ lastCommand' = NoCommand
  /\ lastRequest' = NoRequest
  /\ UNCHANGED <<instanceVars, process, pending, osProcs, dirs, spawnCalls, second, provisioner, lint, project, rule>>

\* one poll made before the timeout has elapsed
Poll(r) ==
  /\ probe.state = "polling"
  /\ probe.polls < MaxPolls
  /\ IF r.kind = "status" /\ ResponseOk(r)
       THEN /\ probe' = [probe EXCEPT !.state = "ok", !.polls = @ + 1]
            /\ last' = WaitForReadyOutcome("ok")
       ELSE /\ probe' = [probe EXCEPT
                           !.polls = IF r.kind = "hang" THEN MaxPolls ELSE @ + 1,
                           !.refused = @ \/ r.kind = "refused"]
            /\ UNCHANGED last
  /\ UNCHANGED <<instanceVars, process, pending, osProcs, dirs, calls, spawnCalls,
                 lastCommand, lastRequest, second, provisioner, lint,
                 project, rule>>

\* the timeout elapses before a 2xx answer was seen
PollTimeout ==
  /\ probe.state = "polling"
  /\ probe.polls >= MaxPolls
  /\ probe' = [probe EXCEPT !.state = "timeout"]
  /\ last' = WaitForReadyOutcome("timeout")
  /\ UNCHANGED <<instanceVars, process, pending, osProcs, dirs, calls, spawnCalls,
                 lastCommand, lastRequest, second, provisioner, lint,
                 project, rule>>

NextReady ==
  \/ WaitForReadyCall
  \/ \E r \in PollResults : Poll(r)
  \/ PollTimeout

\* waitForReady() under the event loop: a poll that is due is made, a timer
\* that has run out fires
SpecReady ==
  /\ Init
  /\ [][NextReady]_vars
  /\ WF_vars(\E r \in PollResults : Poll(r))
  /\ WF_vars(PollTimeout)

(***************************************************************************)
(* downloadConvexBinary({cacheTtlMs, version, cacheDir}, logger), as       *)
(* spawn() awaits it.  The function (utils.ts) is not among the sources;   *)
(* it is modelled from the specification (4.2, 5): look the version up in  *)
(* the cache, reuse an entry younger than the TTL, otherwise download to a *)
(* temporary path and move the finished file into place atomically; no     *)
(* lock is taken.  spawn() calls it once per call and shares nothing       *)
(* between calls.                                                          *)
(***************************************************************************)
\* the cache lookup that starts the call
ResolveCall(c) ==
  /\ provisioner.pc[c] = "idle"
  /\ provisioner.resolves < MaxResolves
  /\ provisioner' =
       IF provisioner.entry = "fresh"
         THEN [provisioner EXCEPT !.resolves = @ + 1, !.pc[c] = "done",
                                  !.got[c] = provisioner.final]
         ELSE [provisioner EXCEPT !.resolves = @ + 1, !.pc[c] = "downloading",
                                  !.tmp[c] = "none", !.got[c] = "none"]
  /\ UNCHANGED <<coreVars, second, probe, lint, project, rule>>

\* the download writes to the caller's temporary path, in two parts
ResolveWrite(c) ==
  /\ provisioner.pc[c] = "downloading"
  /\ provisioner.tmp[c] # "complete"
  /\ provisioner' =
       [provisioner EXCEPT
          !.tmp[c] = IF @ = "none" THEN "partial" ELSE "complete"]
  /\ UNCHANGED <<coreVars, second, probe, lint, project, rule>>

\* the download fails: the call rejects, the temporary file is dropped
ResolveFails(c) ==
  /\ provisioner.pc[c] = "downloading"
  /\ provisioner.tmp[c] # "complete"
  /\ provisioner' = [provisioner EXCEPT !.pc[c] = "failed", !.tmp[c] = "none"]
  /\ UNCHANGED <<coreVars, second, probe, lint, project, rule>>

\* the finished temporary file is renamed to the cached path, the entry is
\* stamped, and the call resolves with that path
ResolveRename(c) ==
  /\ provisioner.pc[c] = "downloading"
  /\ provisioner.tmp[c] = "complete"
  /\ provisioner' =
       [provisioner EXCEPT !.final = "complete", !.entry = "fresh",
                           !.tmp[c] = "none", !.pc[c] = "done",
                           !.got[c] = "complete"]
  /\ UNCHANGED <<coreVars, second, probe, lint, project, rule>>

\* the caller goes on (and may call again later)
ResolveReturn(c) ==
  /\ provisioner.pc[c] \in {"done", "failed"}
  /\ provisioner' = [provisioner EXCEPT !.pc[c] = "idle"]
  /\ UNCHANGED <<coreVars, second, probe, lint, project, rule>>

\* the entry grows older than the TTL
CacheExpires ==
  /\ provisioner.entry = "fresh"
  /\ provisioner' = [provisioner EXCEPT !.entry = "stale"]
  /\ UNCHANGED <<coreVars, second, probe, lint, project, rule>>

NextProvision ==
  \/ \E c \in Resolvers : ResolveCall(c)
  \/ \E c \in Resolvers : ResolveWrite(c)
  \/ \E c \in Resolvers : ResolveFails(c)
  \/ \E c \in Resolvers : ResolveRename(c)
  \/ \E c \in Resolvers : ResolveReturn(c)
  \/ CacheExpires

SpecProvision == Init /\ [][NextProvision]_vars

(***************************************************************************)
(* The instance under any caller.                                          *)
(***************************************************************************)
Next ==
  \/ GetAdminKey
  \/ \E dir \in SpawnDirs : SpawnCall(dir)
  \/ \E dir \in SpawnDirs : SpawnMkdirFails(dir)
  \/ \E i \in 1..MaxInflight : SpawnDownloadFails(i)
  \/ \E i \in 1..MaxInflight, created \in BOOLEAN : SpawnProcess(i, created)
  \/ \E pid \in 1..MaxCalls : ProcessExits(pid)
  \/ \E cleanup \in BOOLEAN, rmFails \in BOOLEAN : Stop(cleanup, rmFails)
  \/ \E r \in CommandResults : Deploy(r)
  \/ \E name \in EnvNames, r \in FetchResults : SetEnv(name, r)
  \/ \E fn \in FunctionNames, r \in FetchResults : RunFunction(fn, r)

Spec == Init /\ [][Next]_vars

(***************************************************************************)
(* The instance under a caller that also waits for readiness: the calls of *)
(* Next together with waitForReady() and its poll loop (startBackend() is  *)
(* spawn() followed by waitForReady()).  The caller constructs the         *)
(* instance with generated credentials and any of the port options.        *)
(***************************************************************************)
LifecycleOptions ==
  { o \in OptionsSet :
      /\ o.instanceName = Undefined
      /\ o.instanceSecret = Undefined
      /\ o.adminKey = NoKey }
\* one answer of each kind for the calls that talk to the backend
LifecycleCommandResults ==
  { r \in CommandResults : r.error = Undefined /\ r.status \in {0, 1} }
LifecycleFetchResults ==
  { r \in FetchResults : (r.answered => r.json = "object") /\ r.status \in {0, 200, 500} }
LifecyclePollResults == { r \in PollResults : r.status \in {0, 200} }

InitLifecycle ==
  /\ \E o \in LifecycleOptions, fresh \in GeneratedSecrets : New(o, fresh)
  /\ lint = NoLint
  /\ project = NoProject
  /\ rule = NewRule

NextLifecycle ==
  \/ GetAdminKey
  \/ SpawnCall(ConstructorBackendDir)
  \/ \E i \in 1..MaxInflight : SpawnDownloadFails(i)
  \/ \E i \in 1..MaxInflight, created \in BOOLEAN : SpawnProcess(i, created)
  \/ \E pid \in 1..MaxCalls : ProcessExits(pid)
  \/ \E cleanup \in BOOLEAN, rmFails \in BOOLEAN : Stop(cleanup, rmFails)
  \/ \E r \in LifecycleCommandResults : Deploy(r)
  \/ \E name \in EnvNames, r \in LifecycleFetchResults : SetEnv(name, r)
  \/ \E fn \in FunctionNames, r \in LifecycleFetchResults : RunFunction(fn, r)
  \/ WaitForReadyCall
  \/ \E r \in LifecyclePollResults : Poll(r)
  \/ PollTimeout

SpecLifecycle == InitLifecycle /\ [][NextLifecycle]_vars

(***************************************************************************)
(* oxlint-plugin-convex, utils.ts.  A string is the sequence of its        *)
(* characters; a regular expression is its source text, read by RegExp as  *)
(* JavaScript reads it (the part of the syntax the sources produce).       *)
(***************************************************************************)
\* all strings over an alphabet up to a length
Strings(chars, n) == UNION {[1..k -> chars] : k \in 0..n}

\* String.prototype.startsWith / endsWith / includes(char) / slice(0, -1)
StartsWith(s, pre) == Len(s) >= Len(pre) /\ SubSeq(s, 1, Len(pre)) = pre
EndsWith(s, suf) ==
  Len(s) >= Len(suf) /\ SubSeq(s, Len(s) - Len(suf) + 1, Len(s)) = suf
Includes(s, c) == \E i \in 1..Len(s) : s[i] = c
DropLast(s) == SubSeq(s, 1, Len(s) - 1)

\* s.replace(/[...]/g, ...): every character in the domain of f is replaced
\* by f of it
RECURSIVE ReplaceEach(_, _)
ReplaceEach(s, f) ==
  IF s = <<>> THEN <<>>
  ELSE (IF s[1] \in DOMAIN f THEN f[s[1]] ELSE <<s[1]>>)
         \o ReplaceEach(SubSeq(s, 2, Len(s)), f)

\* new RegExp(source): the atoms of the source, each with its `*` if one
\* follows.  An atom is an escaped character, the class [^/], the dot, or a
\* plain character; ^ and $ are the anchors.
RECURSIVE RegExpAtoms(_)
RegExpAtoms(src) ==
  IF src = <<>> THEN <<>>
  ELSE
    LET atom ==
          IF src[1] = "\\" THEN [kind |-> "char", ch |-> src[2], len |-> 2]
          ELSE IF StartsWith(src, <<"[", "^", "/", "]">>)
            THEN [kind |-> "nonSlash", ch |-> "", len |-> 4]
          ELSE IF src[1] = "." THEN [kind |-> "any", ch |-> "", len |-> 1]
          ELSE IF src[1] = "^" THEN [kind |-> "start", ch |-> "", len |-> 1]
          ELSE IF src[1] = "$" THEN [kind |-> "end", ch |-> "", len |-> 1]
          ELSE [kind |-> "char", ch |-> src[1], len |-> 1]
        star == Len(src) > atom.len /\ src[atom.len + 1] = "*"
        used == atom.len + (IF star THEN 1 ELSE 0)
    IN <<[kind |-> atom.kind, ch |-> atom.ch, star |-> star]>>
         \o RegExpAtoms(SubSeq(src, used + 1, Len(src)))

\* one character against one atom (the strings of the model hold no line
\* terminator, which is all the dot refuses)
AtomTakes(atom, c) ==
  CASE atom.kind = "char" -> c = atom.ch
    [] atom.kind = "nonSlash" -> c # "/"
    [] atom.kind = "any" -> TRUE
    [] OTHER -> FALSE

\* the atoms from the a-th on match s from position i on, up to some end
RECURSIVE AtomsMatch(_, _, _, _)
AtomsMatch(atoms, a, s, i) ==
  IF a > Len(atoms) THEN TRUE
  ELSE
    LET atom == atoms[a] IN
    IF atom.kind = "start" THEN i = 1 /\ AtomsMatch(atoms, a + 1, s, i)
    ELSE IF atom.kind = "end" THEN i = Len(s) + 1 /\ AtomsMatch(atoms, a + 1, s, i)
    ELSE IF atom.star
      THEN \E j \in i..(Len(s) + 1) :
             /\ \A k \in i..(j - 1) : AtomTakes(atom, s[k])
             /\ AtomsMatch(atoms, a + 1, s, j)
      ELSE /\ i <= Len(s)
           /\ AtomTakes(atom, s[i])
           /\ AtomsMatch(atoms, a + 1, s, i + 1)

\* regex.test(s): the expression matches somewhere in s
RegExpTest(src, s) ==
  \E i \in 1..(Len(s) + 1) : AtomsMatch(RegExpAtoms(src), 1, s, i)

\* isIgnored(key, patterns)
RegexSpecials == {".", "+", "^", "$", "{", "}", "(", ")", "|", "[", "]", "\\"}
Escaped == [c \in RegexSpecials |-> <<"\\", c>>]
StarAsAny == [c \in {"*"} |-> <<".", "*">>]
QuestionAsAny == [c \in {"?"} |-> <<".">>]

\* (variant: the pattern's regex characters are not escaped)
IgnoreRegexUnescaped(pattern) ==
  <<"^">>
    \o ReplaceEach(ReplaceEach(pattern, StarAsAny), QuestionAsAny)
    \o <<"$">>

\* the source of the expression a wildcard pattern is turned into
IgnoreRegex(pattern) ==
  <<"^">>
    \o ReplaceEach(ReplaceEach(ReplaceEach(pattern, Escaped), StarAsAny),
                   QuestionAsAny)
    \o <<"$">>

\* the callback of patterns.some(...)
IgnoredBy(key, pattern) ==
  IF key = pattern THEN TRUE
  ELSE IF EndsWith(pattern, <<".", "*">>) /\ ~Includes(pattern, "*")
    THEN StartsWith(key, DropLast(pattern))
  ELSE IF Includes(pattern, "*") \/ Includes(pattern, "?")
    THEN RegExpTest(IgnoreRegex(pattern), key)
  ELSE FALSE

isIgnored(key, patterns) ==
  \E i \in 1..Len(patterns) : IgnoredBy(key, patterns[i])

\* the keys and patterns isIgnored is called with: module paths and function
\* names are made of the names m and f
MaxKeyLen == 3
MaxPatternLen == 2
KeyChars == {"m", "f", "."}
PatternChars == KeyChars \cup {"*", "?"}
FunctionNames1 == {<<"m">>, <<"f">>}
ModulePaths == {<<"m">>, <<"f">>, <<"m", ".", "f">>, <<"f", ".", "m">>}
ModuleKeys == { M \o <<".">> \o f : M \in ModulePaths, f \in FunctionNames1 }
ModuleWildcards == { M \o <<".", "*">> : M \in ModulePaths }
Keys == Strings(KeyChars, MaxKeyLen) \cup ModuleKeys
IgnorePatterns ==
  Strings(PatternChars, MaxPatternLen) \cup ModuleWildcards \cup ModuleKeys
    \cup { <<"*", ".", "f">>, <<"m", "*", "f">>, <<"m", ".", "?">>,
           <<"*", ".", "f", "*">> }
IgnorePatternLists ==
  {<<>>} \cup { <<p>> : p \in IgnorePatterns }
    \cup { <<p, q>> : p, q \in ModuleWildcards \cup FunctionNames1 }

\* a call about to be made: its arguments
LintCall(op, subject, patterns) ==
  [op |-> op, subject |-> subject, patterns |-> patterns, called |-> FALSE,
   result |-> FALSE]

\* the lint plugin runs in a process of its own: one configuration of the
\* backend instance
DefaultOptions ==
  [instanceName |-> Undefined, instanceSecret |-> Undefined, adminKey |-> NoKey,
   port |-> NoPort, siteProxyPort |-> NoPort]

InitIgnore ==
  /\ \E fresh \in GeneratedSecrets : New(DefaultOptions, fresh)
  /\ \E key \in Keys, patterns \in IgnorePatternLists :
       lint = LintCall("isIgnored", key, patterns)
  /\ project = NoProject
  /\ rule = NewRule

IsIgnoredCall ==
  /\ lint.op = "isIgnored"
  /\ ~lint.called
  /\ lint' = [lint EXCEPT !.called = TRUE,
                          !.result = isIgnored(lint.subject, lint.patterns)]
  /\ UNCHANGED <<coreVars, second, probe, provisioner, project, rule>>

NextIgnore == IsIgnoredCall

SpecIgnore == InitIgnore /\ [][NextIgnore]_vars
(***************************************************************************)
(* normalizePath, globToRegExp, buildGlobMatchers, matchesAnyGlob          *)
(***************************************************************************)
BackslashAsSlash == [c \in {"\\"} |-> <<"/">>]
normalizePath(filePath) == ReplaceEach(filePath, BackslashAsSlash)

GlobSpecials ==
  {"\\", "^", "$", ".", "*", "+", "?", "(", ")", "[", "]", "{", "}", "|"}

\* `while (normalized[i + 1] === "*") i++`: the index of the last star of the
\* run that i is in
RECURSIVE SkipStars(_, _)
SkipStars(normalized, i) ==
  IF i + 1 <= Len(normalized) /\ normalized[i + 1] = "*"
    THEN SkipStars(normalized, i + 1)
    ELSE i

\* the for loop of globToRegExp from index i on (1-based): what it appends
RECURSIVE GlobLoop(_, _)
GlobLoop(normalized, i) ==
  IF i > Len(normalized) THEN <<>>
  ELSE
    LET char == normalized[i] IN
    IF char = "*"
      THEN IF i + 1 <= Len(normalized) /\ normalized[i + 1] = "*"
             THEN <<".", "*">> \o GlobLoop(normalized, SkipStars(normalized, i) + 1)
             ELSE <<"[", "^", "/", "]", "*">> \o GlobLoop(normalized, i + 1)
    ELSE IF char = "?"
      THEN <<"[", "^", "/", "]">> \o GlobLoop(normalized, i + 1)
    ELSE IF char \in GlobSpecials
      THEN <<"\\", char>> \o GlobLoop(normalized, i + 1)
    ELSE <<char>> \o GlobLoop(normalized, i + 1)

\* (variant: the expression is not anchored)
globToRegExpUnanchored(pattern) == GlobLoop(normalizePath(pattern), 1)

\* the source of the expression globToRegExp returns
globToRegExp(pattern) ==
  <<"^">> \o GlobLoop(normalizePath(pattern), 1) \o <<"$">>

\* the globs and paths the functions are called with
MaxGlobLen == 3
MaxPathLen == 3
PathChars == {"a", ".", "/", "\\"}
GlobChars == PathChars \cup {"*", "?"}
Globs == Strings(GlobChars, MaxGlobLen)
Paths == Strings(PathChars, MaxPathLen)

InitGlob ==
  /\ \E fresh \in GeneratedSecrets : New(DefaultOptions, fresh)
  /\ \E path \in Paths, glob \in Globs :
       lint = LintCall("globToRegExp", path, <<glob>>)
  /\ project = NoProject
  /\ rule = NewRule

\* globToRegExp(pattern).test(path)
GlobToRegExpTest ==
  /\ lint.op = "globToRegExp"
  /\ ~lint.called
  /\ lint' = [lint EXCEPT
                !.called = TRUE,
                !.result = RegExpTest(globToRegExp(lint.patterns[1]), lint.subject)]
  /\ UNCHANGED <<coreVars, second, probe, provisioner, project, rule>>

NextGlob == GlobToRegExpTest

SpecGlob == InitGlob /\ [][NextGlob]_vars

\* buildGlobMatchers(patterns)
buildGlobMatchers(patterns) ==
  [ i \in 1..Len(patterns) |->
      [ pattern  |-> patterns[i],
        regex    |-> globToRegExp(patterns[i]),
        hasSlash |-> Includes(normalizePath(patterns[i]), "/") ] ]

\* s.split("/")
RECURSIVE Split(_, _)
Split(s, from) ==
  LET slashes == {i \in from..Len(s) : s[i] = "/"} IN
  IF slashes = {}
    THEN <<SubSeq(s, from, Len(s))>>
    ELSE LET next == CHOOSE i \in slashes : \A j \in slashes : i <= j
         IN <<SubSeq(s, from, next - 1)>> \o Split(s, next + 1)

\* normalizedPath.split("/").pop() ?? normalizedPath
BaseName(normalizedPath) ==
  LET parts == Split(normalizedPath, 1) IN parts[Len(parts)]

\* (variant: every matcher is tested against the whole path)
matchesAnyGlobWholePath(filePath, matchers) ==
  \E i \in 1..Len(matchers) :
    RegExpTest(matchers[i].regex, normalizePath(filePath))

matchesAnyGlob(filePath, matchers) ==
  IF Len(matchers) = 0 THEN FALSE
  ELSE
    LET normalizedPath == normalizePath(filePath)
        baseName == BaseName(normalizedPath)
    IN \E i \in 1..Len(matchers) :
         RegExpTest(matchers[i].regex,
                    IF matchers[i].hasSlash THEN normalizedPath ELSE baseName)

\* the lists of globs matchers are built from
GlobLists ==
  {<<>>} \cup { <<p>> : p \in Globs }
    \cup { <<p, q>> : p, q \in Strings(GlobChars, 1) }

InitMatch ==
  /\ \E fresh \in GeneratedSecrets : New(DefaultOptions, fresh)
  /\ \E path \in Paths, globs \in GlobLists :
       lint = LintCall("matchesAnyGlob", path, globs)
  /\ project = NoProject
  /\ rule = NewRule

\* matchesAnyGlob(path, buildGlobMatchers(patterns))
MatchesAnyGlobCall ==
  /\ lint.op = "matchesAnyGlob"
  /\ ~lint.called
  /\ lint' = [lint EXCEPT
                !.called = TRUE,
                !.result = matchesAnyGlob(lint.subject,
                                          buildGlobMatchers(lint.patterns))]
  /\ UNCHANGED <<coreVars, second, probe, provisioner, project, rule>>

NextMatch == MatchesAnyGlobCall

SpecMatch == InitMatch /\ [][NextMatch]_vars

(***************************************************************************)
(* The rule convex/no-unused-functions (src/unnamed/part_004).  File       *)
(* paths and source text are sequences of symbols: a path is its names,    *)
(* its separators and its extension ("src", "/", "a", ".ts"); the text of  *)
(* a file is given by the member chains that follow `api.` in it.          *)
(***************************************************************************)
DEFAULT_EXTENSIONS == {".ts", ".tsx", ".js", ".jsx"}
DEFAULT_SKIP_DIRS ==
  << <<"node_modules">>, <<".git">>, <<"dist">>, <<"build">>, <<".next">>,
     <<".convex">>, <<"_generated">> >>

\* s.includes(sub) for a text of several symbols
IncludesSeq(s, sub) ==
  \E i \in 1..(Len(s) - Len(sub) + 1) : SubSeq(s, i, i + Len(sub) - 1) = sub

\* context.cwd, and join(cwd, relative path)
Cwd == <<"/", "proj">>
FullPath(rel) == Cwd \o <<"/">> \o rel
\* relative(context.cwd, file)
Relative(full) == SubSeq(full, Len(Cwd) + 2, Len(full))
\* extname(entry.name)
Extname(path) ==
  IF path # <<>> /\ path[Len(path)] \in DEFAULT_EXTENSIONS \cup {".md"}
    THEN path[Len(path)] ELSE ""

\* the files of the project, relative to cwd
ConvexM == <<"convex", "/", "m", ".ts">>
SrcA == <<"src", "/", "a", ".ts">>
ProjectFiles ==
  << ConvexM, SrcA,
     <<"src", "/", "a", ".test", ".ts">>,
     <<"node_modules", "/", "a", ".ts">>,
     <<"gen", "/", "a", ".ts">>,
     <<"src", "/", "a", ".md">> >>

\* getProjectFiles(dir, extensions, skipDirs): the indices of the files kept
getProjectFiles(extensions, skipDirs) ==
  { i \in 1..Len(ProjectFiles) :
      /\ Extname(ProjectFiles[i]) \in extensions
      /\ ~\E d \in 1..Len(skipDirs) :
            IncludesSeq(FullPath(ProjectFiles[i]),
                        <<"/">> \o skipDirs[d] \o <<"/">>) }

\* extractApiUsages(content): the chains captured by /\bapi\.([\w.]+)/g
extractApiUsages(content) == content

\* getConvexModulePath(filePath); <<>> stands for null
FirstIndex(s, sub) ==
  CHOOSE i \in 1..Len(s) :
    /\ SubSeq(s, i, i + Len(sub) - 1) = sub
    /\ \A j \in 1..(i - 1) : SubSeq(s, j, j + Len(sub) - 1) # sub
SlashAsDot == [c \in {"/"} |-> <<".">>]
getConvexModulePath(filePath) ==
  LET normalized == normalizePath(filePath)
      isConvexFile ==
        /\ IncludesSeq(normalized, <<"/", "convex", "/">>)
        /\ ~IncludesSeq(normalized, <<"/", "convex", "/", "_generated", "/">>)
        /\ ~Includes(normalized, "node_modules")
  IN IF ~isConvexFile THEN <<>>
     ELSE LET from == FirstIndex(normalized, <<"/", "convex", "/">>) + 3
              rest == SubSeq(normalized, from, Len(normalized))
          IN IF Len(rest) >= 2 /\ Extname(rest) \in DEFAULT_EXTENSIONS
               THEN ReplaceEach(DropLast(rest), SlashAsDot)
               ELSE <<>>

\* the usages before() collects when it scans the project
ScanUsages(content, ignoreUsageFiles, skipDirs) ==
  LET ignoreUsageMatchers == buildGlobMatchers(ignoreUsageFiles)
      files == getProjectFiles(DEFAULT_EXTENSIONS, skipDirs)
  IN UNION { extractApiUsages(content[i]) :
               i \in { k \in files :
                         ~matchesAnyGlob(
                            normalizePath(Relative(FullPath(ProjectFiles[k]))),
                            ignoreUsageMatchers) } }

\* (variant: the project is scanned once, whatever the options of the
\* files linted later)
BeforeScansOnce ==
  /\ rule.phase = "new"
  /\ project.filename # <<>>
  /\ LET modulePath == getConvexModulePath(project.filename)
         skipDirs == DEFAULT_SKIP_DIRS \o project.skipDirs
         nextIgnoreUsageKey == <<project.ignoreUsageFiles, skipDirs>>
         rescan == ~rule.scanned
     IN IF modulePath = <<>>
          THEN rule' = [rule EXCEPT !.modulePath = <<>>, !.phase = "skipped"]
          ELSE rule' =
                 [rule EXCEPT
                    !.modulePath = modulePath,
                    !.ignorePatterns = project.ignorePatterns,
                    !.ignoreUsageKey = IF rescan THEN nextIgnoreUsageKey ELSE @,
                    !.scanned = TRUE,
                    !.scans = IF rescan THEN @ + 1 ELSE @,
                    !.usages =
                      IF rescan
                        THEN ScanUsages(project.content,
                                        project.ignoreUsageFiles, skipDirs)
                        ELSE @,
                    !.phase =
                      IF \E i \in 1..Len(project.ignorePatterns) :
                           project.ignorePatterns[i] = modulePath \o <<".", "*">>
                        THEN "skipped" ELSE "visiting"]
  /\ UNCHANGED <<coreVars, second, probe, provisioner, lint, project>>

\* before(): returns false (the file is skipped) or true
Before ==
  /\ rule.phase = "new"
  /\ project.filename # <<>>
  /\ LET modulePath == getConvexModulePath(project.filename)
         skipDirs == DEFAULT_SKIP_DIRS \o project.skipDirs
         nextIgnoreUsageKey == <<project.ignoreUsageFiles, skipDirs>>
         rescan == ~rule.scanned \/ rule.ignoreUsageKey # nextIgnoreUsageKey
     IN IF modulePath = <<>>
          THEN rule' = [rule EXCEPT !.modulePath = <<>>, !.phase = "skipped"]
          ELSE rule' =
                 [rule EXCEPT
                    !.modulePath = modulePath,
                    !.ignorePatterns = project.ignorePatterns,
                    !.ignoreUsageKey = IF rescan THEN nextIgnoreUsageKey ELSE @,
                    !.scanned = TRUE,
                    !.scans = IF rescan THEN @ + 1 ELSE @,
                    !.usages =
                      IF rescan
                        THEN ScanUsages(project.content,
                                        project.ignoreUsageFiles, skipDirs)
                        ELSE @,
                    !.phase =
                      IF \E i \in 1..Len(project.ignorePatterns) :
                           project.ignorePatterns[i] = modulePath \o <<".", "*">>
                        THEN "skipped" ELSE "visiting"]
  /\ UNCHANGED <<coreVars, second, probe, provisioner, lint, project>>

\* ExportNamedDeclaration(node): the names it reports.  A node is the list
\* of its declarators; convex = the declarator is `name = f({args, handler})`
ReportedOf(node) ==
  { node[d].name :
      d \in { k \in 1..Len(node) :
                /\ node[k].convex
                /\ ~isIgnored(rule.modulePath \o <<".">> \o node[k].name,
                              rule.ignorePatterns)
                /\ (rule.modulePath \o <<".">> \o node[k].name) \notin rule.usages } }

ExportNamedDeclaration ==
  /\ rule.phase = "visiting"
  /\ rule.visited < Len(project.exports)
  /\ rule' =
       [rule EXCEPT
          !.visited = @ + 1,
          !.reports =
            IF rule.modulePath = <<>> \/ ~rule.scanned
              THEN @
              ELSE @ \cup ReportedOf(project.exports[rule.visited + 1])]
  /\ UNCHANGED <<coreVars, second, probe, provisioner, lint, project>>

\* the projects the rule is run on
KeyMF == <<"m", ".", "f">>
Contents == [1..Len(ProjectFiles) -> {{}, {KeyMF}}]
Declarator(name, convex) == [name |-> name, convex |-> convex]
ExportLists ==
  { << <<Declarator(<<"f">>, TRUE)>> >>,
    << <<Declarator(<<"f">>, FALSE)>> >>,
    << <<Declarator(<<"m">>, TRUE)>>, <<Declarator(<<"f">>, TRUE)>> >>,
    << <<Declarator(<<"m">>, TRUE), Declarator(<<"f">>, TRUE)>> >> }
RuleIgnorePatterns ==
  { <<>>, << <<"m", ".", "*">> >>, << KeyMF >>, << <<"f">> >>,
    << <<"f", ".", "*">>, <<"m", ".", "m">> >> }
RuleIgnoreUsageFiles ==
  { <<>>, << <<"*", ".test", ".ts">> >>, << <<"src", "/", "*", "*">> >> }
RuleSkipDirs == { <<>>, << <<"gen">> >> }

InitRule ==
  /\ \E fresh \in GeneratedSecrets : New(DefaultOptions, fresh)
  /\ lint = NoLint
  /\ \E content \in Contents, file \in {ConvexM, SrcA}, exports \in ExportLists,
        ip \in RuleIgnorePatterns, iuf \in RuleIgnoreUsageFiles,
        sd \in RuleSkipDirs :
       project = [ content |-> content, filename |-> FullPath(file),
                   exports |-> exports, ignorePatterns |-> ip,
                   ignoreUsageFiles |-> iuf, skipDirs |-> sd ]
  /\ rule = NewRule

NextRule ==
  \/ Before
  \/ ExportNamedDeclaration

SpecRule == InitRule /\ [][NextRule]_vars

(***************************************************************************)
(* The rule over a run of the linter: createOnce() is called once, and     *)
(* before() and the visitor run for one file after the other, each file    *)
(* with the options that apply to it (oxlint overrides).  The closure of   *)
(* the rule outlives the file; the files of the project stay as they are   *)
(* during the run.                                                         *)
(***************************************************************************)
\* the files linted in one run
MaxFiles == 3

\* the project at the start of the run: the reference api.m.f is in no file
\* or in one of them
RunContents ==
  { content \in Contents :
      Cardinality({ i \in 1..Len(ProjectFiles) : content[i] # {} }) <= 1 }
RunIgnorePatterns == { <<>>, << KeyMF >>, << <<"m", ".", "*">> >> }

\* the linter goes on to the next file: the run on the file starts anew,
\* usages, ignoreUsageKey, modulePath and ignorePatterns stay in the closure
LintNextFile(file, ignorePatterns, ignoreUsageFiles, skipDirs) ==
  /\ \/ rule.phase = "skipped"
     \/ rule.phase = "visiting" /\ rule.visited = Len(project.exports)
  /\ rule.linted < MaxFiles
  /\ project' = [project EXCEPT
                   !.filename = FullPath(file),
                   !.ignorePatterns = ignorePatterns,
                   !.ignoreUsageFiles = ignoreUsageFiles,
                   !.skipDirs = skipDirs]
  /\ rule' = [rule EXCEPT !.phase = "new", !.visited = 0, !.reports = {},
                          !.linted = @ + 1]
  /\ UNCHANGED <<coreVars, second, probe, provisioner, lint>>

InitRun ==
  /\ \E fresh \in GeneratedSecrets : New(DefaultOptions, fresh)
  /\ lint = NoLint
  /\ \E content \in RunContents, file \in {ConvexM, SrcA},
        ip \in RunIgnorePatterns, iuf \in RuleIgnoreUsageFiles,
        sd \in RuleSkipDirs :
       project = [ content |-> content, filename |-> FullPath(file),
                   exports |-> << <<Declarator(<<"f">>, TRUE)>> >>,
                   ignorePatterns |-> ip, ignoreUsageFiles |-> iuf,
                   skipDirs |-> sd ]
  /\ rule = NewRule

NextRun ==
  \/ Before
  \/ ExportNamedDeclaration
  \/ \E file \in {ConvexM, SrcA}, ip \in RunIgnorePatterns,
        iuf \in RuleIgnoreUsageFiles, sd \in RuleSkipDirs :
       LintNextFile(file, ip, iuf, sd)

SpecRun == InitRun /\ [][NextRun]_vars


(***************************************************************************)
(* Properties.                                                             *)
(***************************************************************************)
HasPid(h) == h.present /\ h.pid # NoPid
\* a message contains a text: the text is one of its tokens
Contains(msg, tok) == \E i \in 1..Len(msg) : msg[i] = tok
ContainsAll(msg, toks) == \A j \in 1..Len(toks) : Contains(msg, toks[j])
RuntimeOps == {"deploy", "setEnv", "runFunction"}
NotStartedMsg == <<"Backend not started">>
\* some process of the instance has been signalled by stop()
SomeStopped == \E p \in 1..Len(osProcs) : osProcs[p].signalled

\* C1: deploy(), setEnv() and runFunction(), called while the process handle
\* is absent, raise the "not started" error and neither run the deploy
\* command nor issue an HTTP request.
C1_RuntimeOpsNeedProcess ==
  (last.op \in RuntimeOps /\ ~last.found.present)
    => /\ last.outcome = "raised"
       /\ last.msg = NotStartedMsg
       /\ ~lastCommand.ran
       /\ ~lastRequest.sent

\* C2: construction creates no process, and the handle stays absent in every
\* state reached before the first spawn() call, whatever else is called.
C2_NoProcessBeforeSpawn ==
  spawnCalls = 0 => (process = NoProcess /\ osProcs = <<>>)

\* other operations have been called, spawn() not yet
C2_Witness ==
  /\ spawnCalls = 0
  /\ calls >= 2
  /\ last.op = "stop"
  /\ process = NoProcess

\* C3: a stop() called before any spawn(), or right after an earlier stop(),
\* does not raise, signals no process and removes nothing, for either value
\* of cleanup.
C3_StopIsIdempotent ==
  [][ ( /\ calls' = calls + 1
        /\ last'.op = "stop"
        /\ (spawnCalls = 0 \/ last.op = "stop") )
      => ( /\ last'.outcome = "ok"
           /\ osProcs' = osProcs
           /\ dirs' = dirs
           /\ process' = process ) ]_vars

\* a stop(cleanup=true) that found no handle, after an earlier stop() had
\* signalled the instance's process and with the working directory on disk
C3_Witness ==
  /\ last.op = "stop"
  /\ last.arg = StopArg(TRUE)
  /\ ~last.found.present
  /\ SomeStopped
  /\ pending = <<>>
  /\ backendDir \in dirs

\* C4: after spawn(dir) has succeeded and stop(cleanup=true) has completed
\* (no spawn() being in flight), the directory dir that this spawn populated
\* no longer exists.
C4_CleanupRemovesSpawnDir ==
  ( /\ last.op = "stop"
    /\ last.arg = StopArg(TRUE)
    /\ last.outcome = "ok"
    /\ HasPid(last.found)
    /\ pending = <<>> )
    => osProcs[last.found.pid].cwd \notin dirs

\* C5: once stop() has completed on an instance that had a process, a
\* spawn() called afterwards (the latest call, and the only one in flight)
\* creates no new process and does not make the handle track a process again.
C5_StoppedIsTerminal ==
  [][ ( /\ SomeStopped
        /\ last.op = "spawn"
        /\ last.outcome = "pending"
        /\ Len(pending) = 1 )
      => ( /\ Len(osProcs') = Len(osProcs)
           /\ (HasPid(process') => process' = process) ) ]_vars

\* C6: a credential the caller supplied at construction is the one the
\* instance uses: the secret passed to the spawned process, the admin key
\* returned by getAdminKey() and sent in the Authorization header.
C6_SuppliedCredentialsKept ==
  /\ TruthyStr(options.instanceSecret)
       => \A p \in 1..Len(osProcs) :
            osProcs[p].argv.instanceSecret = options.instanceSecret
  /\ TruthyKey(options.adminKey)
       => /\ last.op = "getAdminKey" => last.value = options.adminKey
          /\ lastRequest.sent
               => lastRequest.authorization = <<"Convex ">> \o options.adminKey
          /\ lastCommand.ran
               => \E i \in 1..Len(lastCommand.argv) - 1 :
                    /\ lastCommand.argv[i] = "--admin-key"
                    /\ SubSeq(lastCommand.argv, i + 1, i + Len(options.adminKey))
                         = options.adminKey

\* C7: a stop() that finds a process handle signals the tracked process and
\* clears the handle, also when that process has already exited.
C7_StopSignalsAndClears ==
  (last.op = "stop" /\ last.found.present)
    => /\ ~process.present
       /\ last.found.pid \in 1..Len(osProcs)
       /\ osProcs[last.found.pid].signalled
       /\ ~osProcs[last.found.pid].alive

\* C8: when the removal of the working directory fails during
\* stop(cleanup=true) (the directory is not there, or is still there
\* afterwards), the error reaches the caller, and still the process has been
\* signalled and the handle is cleared.
C8_RmFailureStillStops ==
  [][ ( /\ calls' = calls + 1
        /\ last'.op = "stop"
        /\ last'.arg = StopArg(TRUE)
        /\ HasPid(process)
        /\ (backendDir \notin dirs \/ backendDir \in dirs') )
      => ( /\ last'.outcome = "raised"
           /\ ~process'.present
           /\ osProcs'[process.pid].signalled
           /\ ~osProcs'[process.pid].alive ) ]_vars

\* a stop(cleanup=true) whose removal failed on an existing directory
C8_Witness ==
  /\ last.op = "stop"
  /\ last.arg = StopArg(TRUE)
  /\ HasPid(last.found)
  /\ last.outcome = "raised"
  /\ last.msg = <<"EACCES: rm">>
  /\ backendDir \in dirs
  /\ ~process.present

\* what the deploy command wrote before it ended (nothing when it could not
\* be started)
Captured(c) == IF c.stdout = "null" THEN <<>> ELSE <<c.stdout, c.stderr>>

\* C9: whenever the deploy command fails (non-zero exit, cannot be started,
\* timeout), deploy() raises an error whose message embeds the captured
\* stdout and stderr.
C9_DeployFailureEmbedsOutput ==
  (lastCommand.ran /\ (lastCommand.error # Undefined \/ lastCommand.status # "0"))
    => /\ last.op = "deploy"
       /\ last.outcome = "raised"
       /\ ContainsAll(last.msg, Captured(lastCommand))

\* what setEnv() and runFunction() owe a non-2xx response
RaisedWithStatusAndBody ==
  /\ last.outcome = "raised"
  /\ Contains(last.msg, ToString(lastRequest.status))
  /\ Contains(last.msg, lastRequest.text)

\* C10 as stated: every non-2xx response raises an error carrying the status
\* and the body text; a 2xx response raises nothing, and runFunction()
\* returns the value field.
C10_StatusDecidesOutcome ==
  (lastRequest.sent /\ lastRequest.answered)
    => IF ~ResponseOk(lastRequest)
         THEN RaisedWithStatusAndBody
         ELSE /\ last.outcome = "ok"
              /\ last.op = "runFunction" => last.value = <<lastRequest.value>>

\* C10 amended: ... a 2xx response raises nothing in setEnv(), and in
\* runFunction() when its body is a JSON value other than null, whose value
\* field runFunction() then returns.
C10_StatusDecidesOutcomeOnJson ==
  (lastRequest.sent /\ lastRequest.answered)
    => IF ~ResponseOk(lastRequest)
         THEN RaisedWithStatusAndBody
         ELSE /\ last.op = "setEnv" => last.outcome = "ok"
              /\ (last.op = "runFunction" /\ lastRequest.json = "object")
                   => (last.outcome = "ok" /\ last.value = <<lastRequest.value>>)

\* setEnv() answered 404
C10_Witness ==
  /\ last.op = "setEnv"
  /\ lastRequest.answered
  /\ lastRequest.status = 404
  /\ lastRequest.text = "upstream error"
  /\ last.outcome = "raised"

NoPidMsg == <<"Convex process failed to start - no PID assigned">>

ReadyAsPolled ==
  /\ last.outcome = "ok" <=> probe.state = "ok"
  /\ probe.state = "polling" => last.outcome = "pending"
  /\ probe.state = "timeout"
       => (last.outcome = "raised" /\ last.msg = TimeoutMsg(probe.url))

WildcardFree(pattern) == ~Includes(pattern, "*") /\ ~Includes(pattern, "?")

C16_BareNameIgnoredEverywhere ==
  (lint.op = "isIgnored" /\ lint.called)
    => \A M \in ModulePaths, f \in FunctionNames1 :
         ( /\ lint.subject = M \o <<".">> \o f
           /\ \E i \in 1..Len(lint.patterns) : lint.patterns[i] = f )
           => lint.result

\* the stars that p starts with
RECURSIVE LeadingStars(_)
LeadingStars(p) ==
  IF p # <<>> /\ p[1] = "*" THEN 1 + LeadingStars(SubSeq(p, 2, Len(p))) ELSE 0

\* the whole of s fits the glob p: one star is a run of non-slash characters,
\* two or more stars are a run of any characters, ? is one non-slash
\* character, any other character is itself
RECURSIVE GlobFits(_, _)
GlobFits(p, s) ==
  IF p = <<>> THEN s = <<>>
  ELSE
    LET stars == LeadingStars(p) IN
    IF stars >= 1
      THEN \E k \in 0..Len(s) :
             /\ stars = 1 => \A i \in 1..k : s[i] # "/"
             /\ GlobFits(SubSeq(p, stars + 1, Len(p)), SubSeq(s, k + 1, Len(s)))
      ELSE /\ s # <<>>
           /\ IF p[1] = "?" THEN s[1] # "/" ELSE s[1] = p[1]
           /\ GlobFits(SubSeq(p, 2, Len(p)), SubSeq(s, 2, Len(s)))

IsBaseNameOf(t, s) ==
  /\ ~Includes(t, "/")
  /\ EndsWith(s, t)
  /\ (Len(t) = Len(s) \/ s[Len(s) - Len(t)] = "/")

\* some glob of the list fits the path, one that has a separator being held
\* against the whole path and one that has none against the basename, the
\* backslashes of the path read as slashes
SomeGlobFits(globs, path, HasSeparator(_)) ==
  \E i \in 1..Len(globs), k \in 0..Len(path) :
    LET t == SubSeq(normalizePath(path), k + 1, Len(path)) IN
    /\ IF HasSeparator(globs[i])
         THEN k = 0
         ELSE IsBaseNameOf(t, normalizePath(path))
    /\ GlobFits(normalizePath(globs[i]), t)

HasSlash(glob) == Includes(glob, "/")
HasSlashOrBackslash(glob) == Includes(glob, "/") \/ Includes(glob, "\\")

\* C20 as stated: matchesAnyGlob is true iff some matcher matches, a pattern
\* with no slash (/) being tested against the basename and a pattern with a
\* slash against the whole path; false with no matchers.
C20_MatchesBySlash ==
  (lint.op = "matchesAnyGlob" /\ lint.called)
    => (lint.result <=> SomeGlobFits(lint.patterns, lint.subject, HasSlash))

\* C20 amended: ... a pattern with neither slash nor backslash being tested
\* against the basename and a pattern with one against the whole path.
C20_MatchesBySeparator ==
  (lint.op = "matchesAnyGlob" /\ lint.called)
    => (lint.result
          <=> SomeGlobFits(lint.patterns, lint.subject, HasSlashOrBackslash))

\* a glob without slash matches the basename of a path written with a
\* backslash
C20_Witness ==
  /\ lint.op = "matchesAnyGlob"
  /\ lint.called
  /\ lint.patterns = << <<"*", ".">> >>
  /\ lint.subject = <<"a", "\\", ".">>
  /\ lint.result

\* a directory of the path has one of the names
UnderDirectory(full, names) ==
  \E k \in 2..(Len(full) - 1), d \in 1..Len(names) :
    /\ full[k - 1] = "/"
    /\ full[k + 1] = "/"
    /\ <<full[k]>> = names[d]

\* the project files whose references count: source files that are neither
\* under a skipped directory nor matched by ignoreUsageFiles
CountedFiles ==
  { i \in 1..Len(ProjectFiles) :
      /\ ProjectFiles[i][Len(ProjectFiles[i])] \in DEFAULT_EXTENSIONS
      /\ ~UnderDirectory(FullPath(ProjectFiles[i]),
                         DEFAULT_SKIP_DIRS \o project.skipDirs)
      /\ ~SomeGlobFits(project.ignoreUsageFiles, ProjectFiles[i],
                       HasSlashOrBackslash) }

\* the key is matched by ignorePatterns as the patterns are documented: an
\* exact key, a module wildcard "M.*", or a bare function name in any module
MatchedAsDocumented(key, patterns) ==
  \E i \in 1..Len(patterns) :
    \/ patterns[i] = key
    \/ /\ Len(patterns[i]) > 2
       /\ SubSeq(patterns[i], Len(patterns[i]) - 1, Len(patterns[i])) = <<".", "*">>
       /\ StartsWith(key, SubSeq(patterns[i], 1, Len(patterns[i]) - 1))
    \/ /\ ~Includes(patterns[i], ".")
       /\ WildcardFree(patterns[i])
       /\ EndsWith(key, <<".">> \o patterns[i])

\* the linted file is a Convex module file and the rule is through with it
LintedConvexModule ==
  /\ project.filename = FullPath(ConvexM)
  /\ \/ rule.phase = "skipped"
     \/ rule.phase = "visiting" /\ rule.visited = Len(project.exports)

\* the exported Convex functions of the linted file
ExportedConvexFunctions ==
  UNION { { project.exports[n][d].name :
              d \in { k \in 1..Len(project.exports[n]) :
                        project.exports[n][k].convex } } :
          n \in 1..Len(project.exports) }

\* C17: for a linted Convex module file, an exported Convex function is
\* reported as unused exactly when no scanned project file contains a
\* reference api.<module>.<name> and the key <module>.<name> is not matched
\* by ignorePatterns; files under skipped directories or matching
\* ignoreUsageFiles contribute no references.
C17_ReportedIffUnusedAndNotIgnored ==
  LintedConvexModule
    => rule.reports =
         { name \in ExportedConvexFunctions :
             /\ ~\E i \in CountedFiles :
                   (<<"m", ".">> \o name) \in project.content[i]
             /\ ~MatchedAsDocumented(<<"m", ".">> \o name,
                                     project.ignorePatterns) }

\* the latest call to end is a waitForReady() that raised the timeout error
TimedOut ==
  /\ last.op = "waitForReady"
  /\ last.outcome = "raised"
  /\ last.msg = TimeoutMsg(ProbeUrl)

\* C21: when waitForReady() fails with a readiness timeout, the spawned
\* process is not killed and its handle stays present (the timeout leaves
\* handle and processes as they were), and a stop() that follows signals
\* that process and clears the handle.
C21_TimeoutLeavesProcessToStop ==
  [][ /\ (probe.state = "polling" /\ probe'.state = "timeout")
         => /\ process' = process
            /\ osProcs' = osProcs
            /\ HasPid(process) => ~osProcs'[process.pid].signalled
      /\ (TimedOut /\ HasPid(process) /\ last'.op = "stop" /\ calls' = calls + 1)
         => /\ osProcs'[process.pid].signalled
            /\ ~osProcs'[process.pid].alive
            /\ process' = NoProcess ]_vars

\* spawn(), then a waitForReady() that timed out, then a stop() that found
\* the handle of the spawned process, signalled it and cleared the handle
C21_Witness ==
  /\ probe.state = "timeout"
  /\ last.op = "stop"
  /\ HasPid(last.found)
  /\ osProcs[last.found.pid].signalled
  /\ process = NoProcess

\* C22: if stop() is called while a spawn() is suspended awaiting the
\* binary, then once both calls have completed no process created by that
\* spawn() is left running, untracked or unkilled: a process that the
\* suspended spawn() creates after the stop() has been signalled.
C22_StopCoversInflightSpawn ==
  [][ ( /\ last.op = "stop"
        /\ pending # <<>>
        /\ last'.op = "spawn"
        /\ Len(osProcs') = Len(osProcs) + 1 )
        => \/ ~osProcs'[Len(osProcs')].alive
           \/ osProcs'[Len(osProcs')].signalled ]_vars

\* C23: after any sequence of spawn() and stop() calls, every process the
\* instance has created and that has not ended is the one the current
\* handle refers to or has been sent the termination signal (so a final
\* stop() leaves none running), also when spawn() was called twice with no
\* stop() in between.
C23_NoOrphanedProcess ==
  \A pid \in 1..Len(osProcs) :
    osProcs[pid].alive
      => \/ (process.present /\ process.pid = pid)
         \/ osProcs[pid].signalled

\* the calls that only use the instance
UsingOps == {"deploy", "setEnv", "runFunction", "waitForReady", "getAdminKey"}

\* C24: deploy(), setEnv(), runFunction(), waitForReady() and getAdminKey()
\* leave the instance as it was whether they return or raise: process
\* handle, ports, base URL, working directory, instance name, secret and
\* admin key are the same after as before; the handle is set by spawn()
\* only and cleared by stop() only.
C24_OnlySpawnAndStopChangeInstance ==
  [][ /\ (last'.op \in UsingOps /\ (calls' # calls \/ last' # last))
         => /\ process' = process
            /\ port' = port
            /\ siteProxyPort' = siteProxyPort
            /\ backendUrl' = backendUrl
            /\ backendDir' = backendDir
            /\ instanceName' = instanceName
            /\ instanceSecret' = instanceSecret
            /\ adminKey' = adminKey
      /\ (process' # process /\ process'.present) => last'.op = "spawn"
      /\ (process' # process /\ ~process'.present) => last'.op = "stop" ]_vars

\* a deploy() that raised and a waitForReady() that timed out, on an
\* instance whose handle holds the spawned process
C24_Witness ==
  /\ last.op = "deploy"
  /\ last.outcome = "raised"
  /\ lastCommand.ran
  /\ probe.state = "timeout"
  /\ HasPid(process)
  /\ osProcs[process.pid].alive

\* the options of the linted file that decide which files are scanned
OwnUsageOptions ==
  <<project.ignoreUsageFiles, DEFAULT_SKIP_DIRS \o project.skipDirs>>

\* before() has just run on a Convex module file
BeforeRan ==
  /\ rule.phase = "new"
  /\ rule'.phase # "new"
  /\ rule'.modulePath # <<>>

\* C25: over any sequence of linted Convex files with changing options, the
\* usages consulted when a file's exports are checked were built with that
\* file's own ignoreUsageFiles and skipDirs; before() rebuilds the set when
\* there is none or those options differ from the ones it was built with,
\* and reuses it unchanged otherwise, whatever ignorePatterns has become.
C25_UsagesBuiltWithOwnOptions ==
  /\ [](rule.phase = "visiting"
         => /\ rule.scanned
            /\ rule.ignoreUsageKey = OwnUsageOptions
            /\ rule.usages = UNION { project.content[i] : i \in CountedFiles })
  /\ [][ BeforeRan
           => IF ~rule.scanned \/ rule.ignoreUsageKey # OwnUsageOptions
                THEN rule'.scans = rule.scans + 1
                ELSE /\ rule'.scans = rule.scans
                     /\ rule'.usages = rule.usages ]_vars

\* the third file of a run is being checked after the usages were built
\* twice: once anew for changed options, once reused
C25_Witness ==
  /\ rule.linted = 3
  /\ rule.scans = 2
  /\ rule.phase = "visiting"
  /\ rule.visited = 1
  /\ rule.ignorePatterns # <<>>
  /\ rule.usages = {KeyMF}

====
